---- MODULE Spec2Model ----
(***************************************************************************)
(* Model of the nidhogg node controller (uswitch/nidhogg).                 *)
(*                                                                         *)
(* The controller taints a node for every configured daemonset that has no *)
(* ready pod on the node, removes the taint once the pod is ready, and     *)
(* annotates the node the first time it carries no nidhogg taint.          *)
(*                                                                         *)
(* Four specifications are given over the same variables:                 *)
(*   SpecCalc  the taint calculation (calculateTaints) applied to inputs   *)
(*             drawn from bounded sets, and applied again to its output;   *)
(*   SpecConfig  the loading of a configuration (GetConfig, BuildSelectors)*)
(*             and the selector check of HandleNode on bounded inputs;     *)
(*   SpecEnqueue  the pod event handlers (podEnqueue) and the pod lookup   *)
(*             (getDaemonsetPod) applied to the same pod, bounded inputs;  *)
(*   Spec      the controller: work queue, Reconcile, HandleNode with one  *)
(*             step per API call, and the cluster changing around it.      *)
(***************************************************************************)
EXTENDS Integers, Sequences, FiniteSets, TLC

VARIABLES
    config,     \* HandlerConfig: Daemonsets, NodeSelector (parsed requirements)
    node,       \* the node object stored in the API server
    pods,       \* the pods stored in the API server, by pod id
    now,        \* the wall clock, in seconds
    queue,      \* the controller's work queue (a set: the queue deduplicates)
    pc,         \* where the single reconcile worker is
    instance,   \* HandleNode: the node as fetched by Reconcile
    dsIndex,    \* calculateTaints: index of the next daemonset of the loop
    work,       \* calculateTaints: taintsToRemove, nodeCopy.Spec.Taints, changes
    conflict,   \* the stored node was written by another actor since the fetch
    last,       \* what the last finished reconciliation did
    calc        \* SpecCalc, SpecConfig, SpecEnqueue: the phase, the calculations

vars == <<config, node, pods, now, queue, pc, instance, dsIndex, work, conflict,
          last, calc>>

-----------------------------------------------------------------------------
(* Bounds of the model                                                     *)

MaxTaints == 3          \* longest initial taint list of a node (SpecCalc)
MaxDaemonsets == 2      \* longest configured daemonset list (SpecCalc)
MaxTime == 1            \* last second of the clock
MaxSelectors == 2       \* longest configured nodeSelector list (SpecConfig)
MaxOwners == 2          \* longest owner reference list of a pod (SpecEnqueue)

-----------------------------------------------------------------------------
(* Constants of the program                                                *)

taintKey == "nidhogg.uswitch.com"
annotationFirstTimeReady == taintKey \o "/first-time-ready"
taintOperationAdded == "added"
taintOperationRemoved == "removed"
TaintEffectNoSchedule == "NoSchedule"

\* strings.HasPrefix
HasPrefix(s, prefix) ==
    /\ Len(s) >= Len(prefix)
    /\ SubSeq(s, 1, Len(prefix)) = prefix

Range(s) == { s[x] : x \in 1..Len(s) }

\* The name of the one node the model follows, and of another node.
NodeName == "node-1"
OtherNode == "node-2"

-----------------------------------------------------------------------------
(* Daemonsets, pods, taints: the values the inputs are drawn from          *)

Daemonset(name, namespace) == [name |-> name, namespace |-> namespace]

\* DsB and DsC differ in name and in namespace and format to the same taint.
DsA == Daemonset("kiam", "kube-system")
DsB == Daemonset("node.agent", "kube-system")
DsC == Daemonset("agent", "kube-system.node")
DaemonsetUniverse == <<DsA, DsB, DsC>>

PodIds == 1..Len(DaemonsetUniverse)

\* A pod of daemonset ds: OwnerReferences holds the daemonset as controller.
Pod(ds, exists, nodeName, statuses) ==
    [exists    |-> exists,
     namespace |-> ds.namespace,
     owners    |-> <<[name |-> ds.name, kind |-> "DaemonSet", controller |-> TRUE]>>,
     nodeName  |-> nodeName,
     statuses  |-> statuses]

\* The pod of a daemonset on the node, by the Status.ContainerStatuses[*].Ready
\* the kubelet reported.
PodShapes(ds) ==
    { Pod(ds, FALSE, NodeName, << >>),          \* no pod
      Pod(ds, TRUE, NodeName, << >>),           \* scheduled, no status reported
      Pod(ds, TRUE, NodeName, <<TRUE, FALSE>>), \* one container not ready
      Pod(ds, TRUE, NodeName, <<TRUE, TRUE>>) } \* all containers ready

\* The same, or a ready pod of the daemonset on another node.
PodShapesAnywhere(ds) == PodShapes(ds) \cup { Pod(ds, TRUE, OtherNode, <<TRUE>>) }

\* No pod of DsC exists: a namespace name holds no dot, so the API server has
\* no namespace "kube-system.node" (the configuration is not checked for it).
PodStates ==
    { <<a, b, Pod(DsC, FALSE, NodeName, << >>)>> :
        a \in PodShapesAnywhere(DsA), b \in PodShapesAnywhere(DsB) }

Taint(key, value, effect) == [key |-> key, value |-> value, effect |-> effect]

\* Taints a node can carry before a calculation: two foreign taints, the taint
\* of DsA, the taint DsB and DsC share, and a taint whose key is taintKey alone
\* (the key of every taint of the first configuration format).
ForeignCordon == Taint("other.co/cordon", "", "NoSchedule")
ForeignDrain == Taint("example.com/drain", "now", "NoExecute")
LegacyTaint == Taint(taintKey, "kube-system.kiam", TaintEffectNoSchedule)

-----------------------------------------------------------------------------
(* The taint calculation                                                   *)

\* Mutant of TaintName: the name of the first configuration format,
\* fmt.Sprintf("%s.%s", daemonset.Namespace, daemonset.Name).
TaintName_NoKey(ds) == ds.namespace \o "." \o ds.name

\* fmt.Sprintf("%s/%s.%s", taintKey, daemonset.Namespace, daemonset.Name)
TaintName(ds) == taintKey \o "/" \o ds.namespace \o "." \o ds.name

TaintUniverse ==
    { ForeignCordon, ForeignDrain, LegacyTaint,
      Taint(TaintName(DsA), "", TaintEffectNoSchedule),
      Taint(TaintName(DsB), "", TaintEffectNoSchedule) }

\* Sequences over S of length at most n.
SeqUpTo(S, n) == UNION { [1..k -> S] : k \in 0..n }

\* A taint list the API server accepts: no two taints of one key and effect.
ValidTaints(taints) ==
    \A a, b \in 1..Len(taints) :
        (taints[a].key = taints[b].key /\ taints[a].effect = taints[b].effect) => a = b

TaintLists(n) == { t \in SeqUpTo(TaintUniverse, n) : ValidTaints(t) }

\* The orders in which a Go map with key set S can be ranged over.
RangeOrders(S) ==
    { o \in [1..Cardinality(S) -> S] : \A a, b \in DOMAIN o : o[a] = o[b] => a = b }

\* podReady: false as soon as one reported container status is not ready.
podReady(pod) == \A j \in 1..Len(pod.statuses) : pod.statuses[j] # FALSE

\* client.List with client.InNamespace(namespace): the pods of the namespace.
RECURSIVE ListFrom(_, _, _)
ListFrom(ps, namespace, p) ==
    IF p > Len(DaemonsetUniverse) THEN << >>
    ELSE (IF ps[p].exists /\ ps[p].namespace = namespace THEN <<ps[p]>> ELSE << >>)
         \o ListFrom(ps, namespace, p + 1)

List(ps, namespace) == ListFrom(ps, namespace, 1)

\* getDaemonsetPod over a listing: the first pod with an owner reference named
\* ds.Name that is scheduled on nodeName, as a sequence of no or one pod (nil).
getDaemonsetPod(items, nodeName, ds) ==
    LET matches(pod) == /\ \E o \in 1..Len(pod.owners) : pod.owners[o].name = ds.name
                        /\ pod.nodeName = nodeName
        found == SelectSeq(items, matches)
    IN  IF found = << >> THEN << >> ELSE <<Head(found)>>

\* Mutant of addTaint: the taint is added with the effect NoExecute.
addTaint_NoExecute(taints, taintName) ==
    Append(taints, Taint(taintName, "", "NoExecute"))

addTaint(taints, taintName) ==
    Append(taints, Taint(taintName, "", TaintEffectNoSchedule))

removeTaint(taints, taintName) ==
    SelectSeq(taints, LAMBDA taint : taint.key # taintName)

\* Mutant of CalcStart: the key prefix is not checked, every taint of the node
\* is taken for a taint to remove.
CalcStart_AnyKey(taints) ==
    [taintsToRemove |-> { taints[t].key : t \in 1..Len(taints) },
     taints         |-> taints,
     taintsAdded    |-> << >>,
     found          |-> << >>]

\* Mutant of CalcStart: only the keys of the present format, taintKey followed
\* by a slash, are taken for taints to remove.
CalcStart_OwnKeysOnly(taints) ==
    [taintsToRemove |-> { taints[t].key : t \in { u \in 1..Len(taints) : HasPrefix(taints[u].key, taintKey \o "/") } },
     taints         |-> taints,
     taintsAdded    |-> << >>,
     found          |-> << >>]

\* calculateTaints, before the loop: every taint of the node whose key starts
\* with taintKey is to be removed unless a daemonset still needs it.
CalcStart(taints) ==
    [taintsToRemove |-> { taints[t].key : t \in { u \in 1..Len(taints) : HasPrefix(taints[u].key, taintKey) } },
     taints         |-> taints,
     taintsAdded    |-> << >>,
     found          |-> << >>]

\* Mutant of CalcDaemonset: the taint of a daemonset without a ready pod is
\* added without a look at taintsToRemove.
CalcDaemonset_AlwaysAdds(w, ds, pod) ==
    LET taint == TaintName(ds)
        seen == [w EXCEPT !.found = Append(@, pod)]
    IN  IF pod # << >> /\ podReady(pod[1]) THEN seen
        ELSE [seen EXCEPT !.taintsAdded = Append(@, taint),
                          !.taints = addTaint(@, taint)]

\* calculateTaints, one pass of the loop over h.config.Daemonsets, with the pod
\* getDaemonsetPod returned (found keeps the pods returned, for the record).
CalcDaemonset(w, ds, pod) ==
    LET taint == TaintName(ds)
        seen == [w EXCEPT !.found = Append(@, pod)]
    IN  IF pod # << >> /\ podReady(pod[1]) THEN seen
        ELSE IF taint \in w.taintsToRemove
             THEN [seen EXCEPT !.taintsToRemove = @ \ {taint}]
             ELSE [seen EXCEPT !.taintsAdded = Append(@, taint),
                               !.taints = addTaint(@, taint)]

\* calculateTaints, after the loop: the keys left in taintsToRemove are
\* removed, in the order the map is ranged over.
RECURSIVE RemoveAll(_, _)
RemoveAll(taints, order) ==
    IF order = << >> THEN taints
    ELSE RemoveAll(removeTaint(taints, Head(order)), Tail(order))

CalcFinish(w, order) ==
    [taints        |-> RemoveAll(w.taints, order),
     taintsAdded   |-> w.taintsAdded,
     taintsRemoved |-> order]

\* The loop against one pod state ps, from daemonset i on.
RECURSIVE CalcLoop(_, _, _, _)
CalcLoop(w, daemonsets, i, ps) ==
    IF i > Len(daemonsets) THEN w
    ELSE CalcLoop(CalcDaemonset(w, daemonsets[i],
                      getDaemonsetPod(List(ps, daemonsets[i].namespace), NodeName, daemonsets[i])),
                  daemonsets, i + 1, ps)

\* calculateTaints with every listing taken from ps: the results it can return.
calculateTaints(taints, daemonsets, ps) ==
    LET w == CalcLoop(CalcStart(taints), daemonsets, 1, ps)
    IN  { CalcFinish(w, order) : order \in RangeOrders(w.taintsToRemove) }


-----------------------------------------------------------------------------
(* The state                                                               *)

Node(labels, annotations, taints) ==
    [exists |-> TRUE, name |-> NodeName, labels |-> labels,
     annotations |-> annotations, taints |-> taints]

\* Labels and annotations are sets of key/value pairs; the empty set is the
\* nil map, and the empty sequence the nil slice, of a decoded object.
KV(key, value) == [key |-> key, value |-> value]

NoResult == [taints |-> << >>, taintsAdded |-> << >>, taintsRemoved |-> << >>]
NoEmitted == [counts |-> << >>, errors |-> << >>, events |-> << >>]
NoWork == [taintsToRemove |-> {}, taints |-> << >>, taintsAdded |-> << >>,
           found |-> << >>]

\* What a reconciliation did: how it ended, whether it returned an error, the
\* calls it made, and what HandleNode computed when it came that far. quiet:
\* neither pods nor node were changed by another actor since the reconciliation
\* began; afterUpdate: the reconciliation before this one wrote the node, and
\* neither pods nor node were changed by another actor since that one began;
\* allReady (kept for a node fetched without first-time-ready annotation): at
\* some instant since the reconciliation began, the calculation would have
\* found a ready pod for every configured daemonset.
NoLast ==
    [outcome |-> "none", failedAt |-> "", error |-> FALSE, lists |-> 0, writes |-> 0,
     emitted |-> NoEmitted, calculated |-> FALSE, found |-> << >>,
     before |-> Node({}, {}, << >>), nodeCopy |-> Node({}, {}, << >>),
     taintsAdded |-> << >>, taintsRemoved |-> << >>,
     taintLess |-> FALSE, firstTimeReady |-> "", at |-> 0,
     quiet |-> FALSE, afterUpdate |-> FALSE, allReady |-> FALSE]

\* The reconcile worker at rest.
WorkerIdle ==
    /\ pc = "idle"
    /\ instance = Node({}, {}, << >>)
    /\ dsIndex = 0
    /\ work = NoWork
    /\ conflict = FALSE
    /\ last = NoLast

-----------------------------------------------------------------------------
(* SpecCalc: calculateTaints on bounded inputs, run twice                  *)

InitCalc ==
    /\ config \in { [Daemonsets |-> d, NodeSelector |-> << >>, Selector |-> << >>] :
                      d \in SeqUpTo({DsA, DsB, DsC}, MaxDaemonsets) }
    /\ node \in { Node({}, {}, t) : t \in TaintLists(MaxTaints) }
    /\ pods \in PodStates
    /\ now = 0
    /\ queue = {}
    /\ WorkerIdle
    /\ calc = [phase |-> "input", first |-> NoResult, second |-> NoResult]

\* The first run, on the node as given.
CalcFirst ==
    /\ calc.phase = "input"
    /\ \E r \in calculateTaints(node.taints, config.Daemonsets, pods) :
           calc' = [calc EXCEPT !.phase = "once", !.first = r]
    /\ UNCHANGED <<config, node, pods, now, queue, pc, instance, dsIndex, work,
                   conflict, last>>

\* The second run, on the node the first run returned, nothing else changed.
CalcSecond ==
    /\ calc.phase = "once"
    /\ \E r \in calculateTaints(calc.first.taints, config.Daemonsets, pods) :
           calc' = [calc EXCEPT !.phase = "twice", !.second = r]
    /\ UNCHANGED <<config, node, pods, now, queue, pc, instance, dsIndex, work,
                   conflict, last>>

\* Another run on the node as given, nothing changed: the inputs of the first.
CalcAgain ==
    /\ calc.phase = "once"
    /\ \E r \in calculateTaints(node.taints, config.Daemonsets, pods) :
           calc' = [calc EXCEPT !.phase = "again", !.second = r]
    /\ UNCHANGED <<config, node, pods, now, queue, pc, instance, dsIndex, work,
                   conflict, last>>

NextCalc == CalcFirst \/ CalcSecond \/ CalcAgain

SpecCalc == InitCalc /\ [][NextCalc]_vars


-----------------------------------------------------------------------------
(* The node selector                                                       *)

Requirement(key, operator, values) == [key |-> key, operator |-> operator, values |-> values]

\* labels.Parse on the selector strings of the model: the requirements of a
\* well-formed selector, an error for a malformed one.
labelsParse(rawSelector) ==
    CASE rawSelector = "" -> [err |-> FALSE, requirements |-> << >>]
      [] rawSelector = "role=node" ->
             [err |-> FALSE, requirements |-> <<Requirement("role", "=", {"node"})>>]
      [] rawSelector = "role,role!=master" ->
             [err |-> FALSE, requirements |-> <<Requirement("role", "exists", {}),
                                               Requirement("role", "!=", {"master"})>>]
      [] OTHER -> [err |-> TRUE, requirements |-> << >>]

\* HandlerConfig.BuildSelectors: labels.Everything() with the requirements of
\* every parsed selector added; a selector that does not parse panics.
RECURSIVE BuildFrom(_, _)
BuildFrom(nodeSelector, selector) ==
    IF nodeSelector = << >> THEN [panic |-> FALSE, Selector |-> selector]
    ELSE LET parsed == labelsParse(Head(nodeSelector))
         IN  IF parsed.err THEN [panic |-> TRUE, Selector |-> selector]
             ELSE BuildFrom(Tail(nodeSelector), selector \o parsed.requirements)

BuildSelectors(nodeSelector) == BuildFrom(nodeSelector, << >>)

\* labels.Requirement.Matches
RequirementMatches(r, labels) ==
    LET has == \E kv \in labels : kv.key = r.key
        value == (CHOOSE kv \in labels : kv.key = r.key).value
    IN  CASE r.operator \in {"=", "==", "in"} -> has /\ value \in r.values
          [] r.operator \in {"!=", "notin"} -> ~has \/ value \notin r.values
          [] r.operator = "exists" -> has
          [] r.operator = "!" -> ~has

\* Mutant of Matches: a node matches when one requirement matches.
Matches_Any(selector, labels) ==
    \E r \in 1..Len(selector) : RequirementMatches(selector[r], labels)

\* labels.Selector.Matches: every requirement matches (none: Everything).
Matches(selector, labels) ==
    \A r \in 1..Len(selector) : RequirementMatches(selector[r], labels)

\* Mutant of InScope: the selector is not consulted.
InScope_Always(n) == TRUE

\* Mutant of InScope: the negation of the check is lost, the nodes that do not
\* match are the ones handled.
InScope_Negated(n) == ~Matches(config.Selector, n.labels)

\* HandleNode: whether the node matches the nodeSelector.
InScope(n) == Matches(config.Selector, n.labels)

-----------------------------------------------------------------------------
(* SpecConfig: a configuration is loaded, a node is checked against it     *)

\* The nodeSelector entries of a configuration file: no expression, two
\* well-formed expressions, and one that does not parse.
SelectorStrings == { "", "role=node", "role,role!=master", "role in (node" }

\* The label sets of the nodes checked.
ConfigLabelSets ==
    { {}, {KV("role", "node")}, {KV("role", "master")},
      {KV("role", "node"), KV("zone", "a")} }

InitConfig ==
    /\ config \in { [Daemonsets |-> << >>, NodeSelector |-> ns, Selector |-> << >>] :
                      ns \in SeqUpTo(SelectorStrings, MaxSelectors) }
    /\ node \in { Node(l, {}, << >>) : l \in ConfigLabelSets }
    /\ pods = <<Pod(DsA, FALSE, NodeName, << >>), Pod(DsB, FALSE, NodeName, << >>),
                Pod(DsC, FALSE, NodeName, << >>)>>
    /\ now = 0
    /\ queue = {}
    /\ WorkerIdle
    /\ calc = [phase |-> "config", first |-> NoResult, second |-> NoResult]

\* GetConfig: the file is not read or not decoded and an error is returned, or
\* BuildSelectors builds the selector of the configuration, or panics.
GetConfig ==
    /\ calc.phase = "config"
    /\ \/ /\ calc' = [calc EXCEPT !.phase = "error"]
          /\ UNCHANGED config
       \/ LET built == BuildSelectors(config.NodeSelector)
          IN  IF built.panic
              THEN /\ calc' = [calc EXCEPT !.phase = "panic"]
                   /\ UNCHANGED config
              ELSE /\ calc' = [calc EXCEPT !.phase = "loaded"]
                   /\ config' = [config EXCEPT !.Selector = built.Selector]
    /\ UNCHANGED <<node, pods, now, queue, pc, instance, dsIndex, work, conflict, last>>

\* HandleNode, the selector check on the node with the configuration loaded.
SelectorCheck ==
    /\ calc.phase = "loaded"
    /\ calc' = [calc EXCEPT !.phase = IF InScope(node) THEN "in scope" ELSE "out of scope"]
    /\ UNCHANGED <<config, node, pods, now, queue, pc, instance, dsIndex, work,
                   conflict, last>>

NextConfig == GetConfig \/ SelectorCheck

SpecConfig == InitConfig /\ [][NextConfig]_vars

-----------------------------------------------------------------------------
(* The controller                                                          *)

\* time.Now().Format("2006-01-02T15:04:05Z"): the second t as a string.
FormatTime(t) == ToString(t) \o "Z"

\* Mutant of TaintLess: a node is taint-less only without any taint.
TaintLess_NoTaintAtAll(taints) == taints = << >>

\* HandleNode: taintLess, no taint of the node copy starts with taintKey.
TaintLess(taints) == \A t \in 1..Len(taints) : ~HasPrefix(taints[t].key, taintKey)

\* Mutant of FirstTimeReady: a taint-less node is annotated with the current
\* time whether or not it carries the annotation already.
FirstTimeReady_Overwrites(annotations, taintLess, t) ==
    LET others == { kv \in annotations : kv.key # annotationFirstTimeReady }
        stored == annotations \ others
    IN  IF taintLess
        THEN [annotations    |-> others \cup {KV(annotationFirstTimeReady, FormatTime(t))},
              firstTimeReady |-> FormatTime(t)]
        ELSE [annotations    |-> annotations,
              firstTimeReady |-> IF stored # {} THEN (CHOOSE kv \in stored : TRUE).value ELSE ""]

\* HandleNode: the first-time-ready annotation of the node copy and the value
\* logged, from the annotations fetched.
FirstTimeReady(annotations, taintLess, t) ==
    LET present == \E kv \in annotations : kv.key = annotationFirstTimeReady
        stored == (CHOOSE kv \in annotations : kv.key = annotationFirstTimeReady).value
    IN  IF taintLess
        THEN IF ~present
             THEN [annotations    |-> annotations \cup {KV(annotationFirstTimeReady, FormatTime(t))},
                   firstTimeReady |-> FormatTime(t)]
             ELSE [annotations |-> annotations, firstTimeReady |-> stored]
        ELSE [annotations    |-> annotations,
              firstTimeReady |-> IF present THEN stored ELSE ""]

\* Mutant of Notifications: the removed taints are not counted.
Notifications_AddedOnly(added, removed, taintLess, firstTimeReady) ==
    [counts |-> [x \in 1..Len(added) |->
                    [operation |-> taintOperationAdded, taint |-> added[x]]],
     errors |-> << >>,
     events |-> <<[reason |-> "TaintsChanged", taintsAdded |-> added,
                   taintsRemoved |-> removed, taintLess |-> taintLess,
                   firstTimeReady |-> firstTimeReady]>>]

\* HandleNode after a successful Update: one taint_operations count per added
\* and per removed taint, in this order, then the TaintsChanged event.
Notifications(added, removed, taintLess, firstTimeReady) ==
    [counts |-> [x \in 1..Len(added) |->
                    [operation |-> taintOperationAdded, taint |-> added[x]]]
                \o [x \in 1..Len(removed) |->
                    [operation |-> taintOperationRemoved, taint |-> removed[x]]],
     errors |-> << >>,
     events |-> <<[reason |-> "TaintsChanged", taintsAdded |-> added,
                   taintsRemoved |-> removed, taintLess |-> taintLess,
                   firstTimeReady |-> firstTimeReady]>>]

\* Mutant of ErrorCount: the error is counted in taint_operations, the counter
\* of the changes, instead of taint_operation_errors.
ErrorCount_AsChange(operation) ==
    [counts |-> <<[operation |-> operation, taint |-> ""]>>, errors |-> << >>,
     events |-> << >>]

\* taintOperationErrors.WithLabelValues(operation).Inc()
ErrorCount(operation) == [counts |-> << >>, errors |-> <<operation>>, events |-> << >>]

\* Reconcile returns to the worker, what it did recorded.
Finished(record) ==
    /\ pc' = "done"
    /\ instance' = Node({}, {}, << >>)
    /\ dsIndex' = 0
    /\ work' = NoWork
    /\ conflict' = FALSE
    /\ last' = record

\* The worker takes the result of Reconcile: a request whose Reconcile returned
\* an error is queued again (the queue holds a request once). No call is made
\* between the end of HandleNode and this, so the cluster does not move first.
Return ==
    /\ pc = "done"
    /\ pc' = "idle"
    /\ queue' = IF last.error THEN queue \cup {NodeName} ELSE queue
    /\ last' = [NoLast EXCEPT !.afterUpdate = (last.outcome = "UPDATED" /\ last.quiet)]
    /\ UNCHANGED <<config, node, pods, now, instance, dsIndex, work, conflict, calc>>

\* Every configured daemonset has, in the pod state ps, a pod on the node that
\* getDaemonsetPod returns and podReady takes for ready.
AllReady(ps) ==
    \A d \in 1..Len(config.Daemonsets) :
        LET pod == getDaemonsetPod(List(ps, config.Daemonsets[d].namespace), NodeName,
                                   config.Daemonsets[d])
        IN  pod # << >> /\ podReady(pod[1])

\* The node has no first-time-ready annotation.
Unannotated(n) == \A kv \in n.annotations : kv.key # annotationFirstTimeReady

\* The record of a reconciliation that begins.
Began == [NoLast EXCEPT !.quiet = TRUE, !.afterUpdate = last.afterUpdate,
                        !.allReady = (node.exists /\ Unannotated(node) /\ AllReady(pods))]

\* Mutant of NotFound: the error of the Get is returned without a look at
\* errors.IsNotFound.
NotFound_ReturnsError == [Began EXCEPT !.outcome = "NOT_FOUND", !.error = TRUE]

\* Reconcile when the Get finds no node: nothing to do, no error returned.
NotFound == [Began EXCEPT !.outcome = "NOT_FOUND"]

\* ReconcileNode.Reconcile takes the request of the node from the queue and
\* gets the node; HandleNode checks the selector and calculateTaints starts.
Reconcile ==
    /\ pc = "idle"
    /\ NodeName \in queue
    /\ queue' = queue \ {NodeName}
    /\ \/ Finished([Began EXCEPT !.outcome = "FAILED", !.failedAt = "get",
                                   !.error = TRUE])
       \/ /\ ~node.exists
          /\ Finished(NotFound)
       \/ /\ node.exists
          /\ ~InScope(node)
          /\ Finished([Began EXCEPT !.outcome = "OUT_OF_SCOPE", !.before = node])
       \/ /\ node.exists
          /\ InScope(node)
          /\ pc' = "calc"
          /\ instance' = node
          /\ dsIndex' = 1
          /\ work' = CalcStart(node.taints)
          /\ conflict' = FALSE
          /\ last' = [Began EXCEPT !.outcome = "running", !.before = node]
    /\ UNCHANGED <<config, node, pods, now, calc>>

\* calculateTaints, one pass of the loop: getDaemonsetPod lists the pods of the
\* daemonset's namespace; the listing fails, or the daemonset is decided.
CalcNext ==
    /\ pc = "calc"
    /\ dsIndex <= Len(config.Daemonsets)
    /\ LET ds == config.Daemonsets[dsIndex]
       IN  \/ /\ Finished([last EXCEPT !.outcome = "FAILED", !.failedAt = "list",
                                       !.error = TRUE, !.lists = dsIndex, !.found = work.found,
                                       !.emitted = ErrorCount("calculateTaints")])
              /\ UNCHANGED queue
           \/ /\ work' = CalcDaemonset(work, ds,
                             getDaemonsetPod(List(pods, ds.namespace), instance.name, ds))
              /\ dsIndex' = dsIndex + 1
              /\ last' = [last EXCEPT !.lists = dsIndex]
              /\ UNCHANGED <<queue, pc, instance, conflict>>
    /\ UNCHANGED <<config, node, pods, now, calc>>

\* Mutant of UpdateAccepted: the update carries no resource version, the last
\* writer wins.
UpdateAccepted_LastWriterWins(nodeCopy) ==
    /\ node.exists
    /\ ValidTaints(nodeCopy.taints)

\* The API server takes an update of the node from a writer that holds its
\* latest version, when the taints are valid.
UpdateAccepted(nodeCopy) ==
    /\ node.exists
    /\ ~conflict
    /\ ValidTaints(nodeCopy.taints)

\* The rest of calculateTaints and of HandleNode: the taints left to remove are
\* removed, the first-time-ready annotation is decided, and a node copy that
\* differs from the node fetched is written; notifications follow the write.
HandleNodeFinish ==
    /\ pc = "calc"
    /\ dsIndex > Len(config.Daemonsets)
    /\ \E order \in RangeOrders(work.taintsToRemove) :
         LET changes == CalcFinish(work, order)
             taintLess == TaintLess(changes.taints)
             ftr == FirstTimeReady(instance.annotations, taintLess, now)
             nodeCopy == [instance EXCEPT !.taints = changes.taints,
                                          !.annotations = ftr.annotations]
             record == [last EXCEPT !.calculated = TRUE, !.found = work.found,
                                    !.nodeCopy = nodeCopy,
                                    !.taintsAdded = changes.taintsAdded,
                                    !.taintsRemoved = changes.taintsRemoved,
                                    !.taintLess = taintLess,
                                    !.firstTimeReady = ftr.firstTimeReady,
                                    !.at = now]
         IN  IF nodeCopy = instance
             THEN /\ Finished([record EXCEPT !.outcome = "NO_CHANGE"])
                  /\ UNCHANGED node
             ELSE \/ /\ UpdateAccepted(nodeCopy)
                     /\ node' = nodeCopy
                     /\ Finished([record EXCEPT
                            !.outcome = "UPDATED", !.writes = 1,
                            !.emitted = Notifications(changes.taintsAdded,
                                            changes.taintsRemoved, taintLess,
                                            ftr.firstTimeReady)])
                  \/ /\ Finished([record EXCEPT
                            !.outcome = "FAILED", !.failedAt = "update",
                            !.error = TRUE, !.writes = 1,
                            !.emitted = ErrorCount("nodeUpdate")])
                     /\ UNCHANGED node
    /\ UNCHANGED <<config, pods, now, queue, calc>>

-----------------------------------------------------------------------------
(* The cluster around the controller                                       *)

\* The cluster moves whenever the worker is not just returning from Reconcile.
ClusterMoves == pc # "done"

\* Another actor changed the pods or the node: the record of the reconciliation
\* under way, or of the one before, notes it.
Disturbed == [last EXCEPT !.quiet = FALSE, !.afterUpdate = FALSE]

\* The namespaces of the cluster: pods exist in these only.
Namespaces == {"kube-system"}

\* podEnqueue.canAddToQueue: the pod is scheduled and its controller, the owner
\* reference metav1.GetControllerOf returns, is a DaemonSet.
canAddToQueue(pod) ==
    LET controllers == SelectSeq(pod.owners, LAMBDA o : o.controller)
    IN  /\ pod.nodeName # ""
        /\ controllers # << >>
        /\ Head(controllers).kind = "DaemonSet"

\* A pod is created, updated or deleted; podEnqueue queues the pod's node.
\* (The pods followed are those of the configured daemonsets.)
PodChange ==
    /\ ClusterMoves
    /\ \E p \in PodIds :
         \E shape \in PodShapes(DaemonsetUniverse[p]) :
            /\ DaemonsetUniverse[p] \in Range(config.Daemonsets)
            /\ DaemonsetUniverse[p].namespace \in Namespaces
            /\ shape # pods[p]
            /\ (pods[p].exists /\ shape.exists) => shape.nodeName = pods[p].nodeName
            /\ pods' = [pods EXCEPT ![p] = shape]
            /\ LET pod == IF shape.exists THEN shape ELSE pods[p]
               IN  queue' = IF canAddToQueue(pod) /\ pod.nodeName = NodeName
                             THEN queue \cup {NodeName} ELSE queue
    /\ last' = [Disturbed EXCEPT !.allReady =
                        (pc = "calc" /\ Unannotated(instance) /\ (@ \/ AllReady(pods')))]
    /\ UNCHANGED <<config, node, now, pc, instance, dsIndex, work, conflict, calc>>

\* A daemonset pod on the node that belongs to no configured daemonset is
\* created, updated or deleted: podEnqueue queues the node all the same.
OtherPodChange ==
    /\ ClusterMoves
    /\ NodeName \notin queue
    /\ queue' = queue \cup {NodeName}
    /\ UNCHANGED <<config, node, pods, now, pc, instance, dsIndex, work, conflict,
                   last, calc>>

LabelSets == { {}, {KV("role", "node")} }

\* Another actor changes the labels of the node; nodeEnqueue.Update queues
\* nothing.
NodeLabelsChange ==
    /\ ClusterMoves
    /\ node.exists
    /\ \E labels \in LabelSets \ {node.labels} :
           node' = [node EXCEPT !.labels = labels]
    /\ conflict' = (conflict \/ pc = "calc")
    /\ last' = Disturbed
    /\ UNCHANGED <<config, pods, now, queue, pc, instance, dsIndex, work, calc>>

\* The node is deleted; nodeEnqueue.Delete queues nothing.
NodeDelete ==
    /\ ClusterMoves
    /\ node.exists
    /\ node' = [Node({}, {}, << >>) EXCEPT !.exists = FALSE]
    /\ last' = Disturbed
    /\ UNCHANGED <<config, pods, now, queue, pc, instance, dsIndex, work, conflict, calc>>

Tick ==
    /\ ClusterMoves
    /\ now < MaxTime
    /\ now' = now + 1
    /\ UNCHANGED <<config, node, pods, queue, pc, instance, dsIndex, work, conflict,
                   last, calc>>

-----------------------------------------------------------------------------
(* SpecEnqueue: a pod is looked up, and an event of the pod is handled     *)

OwnerRef(name, kind, controller) == [name |-> name, kind |-> kind, controller |-> controller]

\* The owner references of the pods: the daemonset kiam as controller, the
\* daemonset kiam as an owner that is not the controller, a stateful set of
\* the name kiam as controller, another daemonset as controller.
OwnerRefs ==
    { OwnerRef("kiam", "DaemonSet", TRUE), OwnerRef("kiam", "DaemonSet", FALSE),
      OwnerRef("kiam", "StatefulSet", TRUE), OwnerRef("fluentd", "DaemonSet", TRUE) }

\* The owner reference lists the API server accepts: one controller at most.
OwnerLists ==
    { o \in SeqUpTo(OwnerRefs, MaxOwners) :
        \A a, b \in 1..Len(o) : (o[a].controller /\ o[b].controller) => a = b }

\* The pods of the namespace kube-system an event can be about.
EventPods ==
    { [exists |-> TRUE, namespace |-> "kube-system", owners |-> o, nodeName |-> n,
       statuses |-> st] :
        o \in OwnerLists, n \in {"", NodeName, OtherNode},
        st \in {<< >>, <<TRUE>>, <<FALSE>>} }

InitEnqueue ==
    /\ config = [Daemonsets |-> <<DsA>>, NodeSelector |-> << >>, Selector |-> << >>]
    /\ node = Node({}, {}, << >>)
    /\ pods \in { <<pod, Pod(DsB, FALSE, NodeName, << >>), Pod(DsC, FALSE, NodeName, << >>)>> :
                    pod \in EventPods }
    /\ now = 0
    /\ queue = {}
    /\ WorkerIdle
    /\ calc = [phase |-> "pod", first |-> NoResult, second |-> NoResult]

\* getDaemonsetPod for the configured daemonset on the node, the pod stored.
Locate ==
    /\ calc.phase = "pod"
    /\ work' = [work EXCEPT !.found =
                   <<getDaemonsetPod(List(pods, config.Daemonsets[1].namespace), NodeName,
                                     config.Daemonsets[1])>>]
    /\ calc' = [calc EXCEPT !.phase = "located"]
    /\ UNCHANGED <<config, node, pods, now, queue, pc, instance, dsIndex, conflict, last>>

\* podEnqueue.Create, Update and Delete: the node of the pod is queued when
\* canAddToQueue accepts the pod.
Enqueue(pod) == IF canAddToQueue(pod) THEN queue \cup {pod.nodeName} ELSE queue

\* The creation event of the pod.
PodCreate ==
    /\ calc.phase = "located"
    /\ queue' = Enqueue(pods[1])
    /\ calc' = [calc EXCEPT !.phase = "created"]
    /\ UNCHANGED <<config, node, pods, now, pc, instance, dsIndex, work, conflict, last>>

\* The kubelet reports other container statuses: the update event carries the
\* new pod.
PodUpdate ==
    /\ calc.phase = "located"
    /\ \E st \in {<< >>, <<TRUE>>, <<FALSE>>} \ {pods[1].statuses} :
           /\ pods' = [pods EXCEPT ![1].statuses = st]
           /\ queue' = Enqueue(pods'[1])
    /\ calc' = [calc EXCEPT !.phase = "updated"]
    /\ UNCHANGED <<config, node, now, pc, instance, dsIndex, work, conflict, last>>

\* The pod is deleted: the deletion event carries the pod.
PodDelete ==
    /\ calc.phase = "located"
    /\ pods' = [pods EXCEPT ![1].exists = FALSE]
    /\ queue' = Enqueue(pods[1])
    /\ calc' = [calc EXCEPT !.phase = "deleted"]
    /\ UNCHANGED <<config, node, now, pc, instance, dsIndex, work, conflict, last>>

NextEnqueue == Locate \/ PodCreate \/ PodUpdate \/ PodDelete

SpecEnqueue == InitEnqueue /\ [][NextEnqueue]_vars

-----------------------------------------------------------------------------
(* Spec: the controller in its cluster                                     *)

DaemonsetLists == { << >>, <<DsA>>, <<DsA, DsB>>, <<DsA, DsA>>, <<DsB, DsC>> }
NodeSelectors == { << >>, <<"role=node">> }
InitialTaints == { << >>, <<ForeignCordon, LegacyTaint>> }

\* The controller starts with the configuration loaded and its selector built;
\* the node exists and its creation event has queued it (nodeEnqueue.Create).
\* A node that starts with foreign and legacy taints is paired with the
\* configurations of at most one daemonset; SpecCalc runs the calculation on
\* every taint list with every daemonset list.
Init ==
    /\ config \in { [Daemonsets |-> d, NodeSelector |-> ns,
                     Selector |-> BuildSelectors(ns).Selector] :
                      d \in DaemonsetLists,
                      ns \in { x \in NodeSelectors : ~BuildSelectors(x).panic } }
    /\ node \in { Node(l, {}, t) : l \in LabelSets, t \in InitialTaints }
    /\ (Len(config.Daemonsets) <= 1 \/ node.taints = << >>)
    /\ pods = <<Pod(DsA, FALSE, NodeName, << >>), Pod(DsB, FALSE, NodeName, << >>),
                Pod(DsC, FALSE, NodeName, << >>)>>
    /\ now = 0
    /\ queue = {NodeName}
    /\ WorkerIdle
    /\ calc = [phase |-> "off", first |-> NoResult, second |-> NoResult]

Next ==
    \/ Reconcile
    \/ CalcNext
    \/ HandleNodeFinish
    \/ Return
    \/ PodChange
    \/ OtherPodChange
    \/ NodeLabelsChange
    \/ NodeDelete
    \/ Tick

Spec == Init /\ [][Next]_vars

-----------------------------------------------------------------------------
(* Properties of the taint calculation (SpecCalc)                          *)

Keys(taints) == { taints[x].key : x \in 1..Len(taints) }
CountKey(taints, key) == Cardinality({ x \in 1..Len(taints) : taints[x].key = key })
ForeignTaints(taints) == SelectSeq(taints, LAMBDA taint : ~HasPrefix(taint.key, taintKey))
ManagedKeys(taints) == { k \in Keys(taints) : HasPrefix(k, taintKey) }
NoRepeat(s) == \A a, b \in 1..Len(s) : s[a] = s[b] => a = b

\* The pod the calculation finds for a configured daemonset in the pod state.
PodOf(ds) == getDaemonsetPod(List(pods, ds.namespace), NodeName, ds)
Configured == Range(config.Daemonsets)
CalcDone == calc.phase \in {"once", "twice"}

\* C1: a second run of the calculation on the node the first run returned,
\* with daemonsets and pods unchanged, returns the same taint list and an
\* empty change record.
C1_Idempotent ==
    calc.phase = "twice" =>
        /\ calc.second.taints = calc.first.taints
        /\ calc.second.taintsAdded = << >>
        /\ calc.second.taintsRemoved = << >>

\* C2: the taints whose key does not start with taintKey come out of the
\* calculation in the same number, with the same content and in the same
\* order, and none of their keys is listed as added or removed.
C2_ForeignTaintsKept ==
    /\ CalcDone =>
        /\ ForeignTaints(calc.first.taints) = ForeignTaints(node.taints)
        /\ \A k \in Keys(ForeignTaints(node.taints)) :
               k \notin Range(calc.first.taintsAdded) \cup Range(calc.first.taintsRemoved)
    /\ calc.phase = "twice" =>
        /\ ForeignTaints(calc.second.taints) = ForeignTaints(node.taints)
        /\ \A k \in Keys(ForeignTaints(node.taints)) :
               k \notin Range(calc.second.taintsAdded) \cup Range(calc.second.taintsRemoved)

\* C2 witness: two foreign taints around a nidhogg taint that the calculation
\* removed, and another taint added behind them.
C2_Witness ==
    /\ calc.phase = "once"
    /\ Len(node.taints) = 3
    /\ ~HasPrefix(node.taints[1].key, taintKey)
    /\ HasPrefix(node.taints[2].key, taintKey)
    /\ ~HasPrefix(node.taints[3].key, taintKey)
    /\ calc.first.taintsRemoved # << >>
    /\ calc.first.taintsAdded # << >>

\* C3: for every configured daemonset whose pod is missing or not ready, the
\* daemonset's taint is on the calculated node, is listed as added only when
\* it was not on the node before, and is not listed as removed.
C3_NotReadyIsTainted ==
    CalcDone =>
        \A ds \in Configured :
            (PodOf(ds) = << >> \/ ~podReady(PodOf(ds)[1])) =>
                /\ TaintName(ds) \in Keys(calc.first.taints)
                /\ TaintName(ds) \in Range(calc.first.taintsAdded)
                       => TaintName(ds) \notin Keys(node.taints)
                /\ TaintName(ds) \notin Range(calc.first.taintsRemoved)

\* C4: for every configured daemonset whose pod exists and is ready, the
\* daemonset's taint is not on the calculated node, is not listed as added,
\* and is listed as removed exactly when it was on the node before.
C4_ReadyIsUntainted ==
    CalcDone =>
        \A ds \in Configured :
            (PodOf(ds) # << >> /\ podReady(PodOf(ds)[1])) =>
                /\ TaintName(ds) \notin Keys(calc.first.taints)
                /\ TaintName(ds) \notin Range(calc.first.taintsAdded)
                /\ TaintName(ds) \in Range(calc.first.taintsRemoved)
                       <=> TaintName(ds) \in Keys(node.taints)

\* C6: a pod is ready exactly when it reports at least one container status
\* and every reported status is ready; the taint of a configured daemonset
\* whose pod reports no container status is on the calculated node.
C6_ReadyNeedsAStatus ==
    CalcDone =>
        \A ds \in Configured :
            PodOf(ds) # << >> =>
                LET statuses == PodOf(ds)[1].statuses
                IN  /\ podReady(PodOf(ds)[1]) <=>
                           /\ Len(statuses) >= 1
                           /\ \A j \in 1..Len(statuses) : statuses[j] = TRUE
                    /\ statuses = << >> => TaintName(ds) \in Keys(calc.first.taints)

\* C9: on a node that holds every nidhogg key at most once, the calculated
\* taint list holds every nidhogg key at most once and no key is listed as
\* added twice, whatever the daemonset list (repeated entries included).
C9_NoDuplicateTaint ==
    (CalcDone /\ \A k \in ManagedKeys(node.taints) : CountKey(node.taints, k) = 1) =>
        /\ \A k \in ManagedKeys(calc.first.taints) : CountKey(calc.first.taints, k) = 1
        /\ NoRepeat(calc.first.taintsAdded)


\* The taint the documentation gives for a daemonset.
DocumentedTaint(ds) ==
    [key |-> "nidhogg.uswitch.com/" \o ds.namespace \o "." \o ds.name,
     value |-> "", effect |-> "NoSchedule"]

\* The taints of a list that another list does not hold.
NewTaints(after, before) == Range(after) \ Range(before)

\* C18: every taint of the calculated node that the node did not carry is the
\* documented taint of a configured daemonset, every key listed as added is
\* the key of such a taint, and the calculated node carries the documented
\* taint of every key listed as added.
C18_TaintKeyAndEffect ==
    /\ CalcDone =>
        /\ \A t \in NewTaints(calc.first.taints, node.taints) :
               \E ds \in Configured : t = DocumentedTaint(ds)
        /\ \A k \in Range(calc.first.taintsAdded) :
               \E ds \in Configured : /\ k = DocumentedTaint(ds).key
                                      /\ DocumentedTaint(ds) \in Range(calc.first.taints)
    /\ calc.phase = "twice" =>
        /\ \A t \in NewTaints(calc.second.taints, calc.first.taints) :
               \E ds \in Configured : t = DocumentedTaint(ds)
        /\ \A k \in Range(calc.second.taintsAdded) :
               \E ds \in Configured : /\ k = DocumentedTaint(ds).key
                                      /\ DocumentedTaint(ds) \in Range(calc.second.taints)

\* C18 witness: the taint of kiam in kube-system was added to a node that kept
\* a taint of another key form.
C18_Witness ==
    /\ calc.phase = "once"
    /\ LegacyTaint \in Range(node.taints)
    /\ calc.first.taintsAdded = <<"nidhogg.uswitch.com/kube-system.kiam">>
    /\ Taint("nidhogg.uswitch.com/kube-system.kiam", "", "NoSchedule")
           \in Range(calc.first.taints)

\* C19: after a calculation, no two configured daemonsets that differ in name
\* or namespace have the same taint key.
C19_KeyRoundTrips ==
    CalcDone =>
        \A a, b \in Configured : TaintName(a) = TaintName(b) => a = b


\* C21: a run of the calculation on the inputs of the first run returns the
\* taint list and the change record of the first run, the entries of added
\* and of removed in the same order.
C21_SameInputsSameResult ==
    calc.phase = "again" =>
        /\ calc.second.taints = calc.first.taints
        /\ calc.second.taintsAdded = calc.first.taintsAdded
        /\ calc.second.taintsRemoved = calc.first.taintsRemoved


\* The keys of the taints of the configured daemonsets for which the
\* calculation finds no pod on the node, or a pod that is not ready.
NeededKeys ==
    { DocumentedTaint(ds).key :
          ds \in { d \in Configured : PodOf(d) = << >> \/ ~podReady(PodOf(d)[1]) } }

\* How often a key is listed.
Listed(keys, key) == Cardinality({ x \in 1..Len(keys) : keys[x] = key })

\* C22: after a calculation, every key of the node that starts with
\* "nidhogg.uswitch.com" and is not the key of a configured daemonset whose
\* pod is missing or not ready is on no taint of the calculated node and is
\* listed once as removed.
C22_StaleTaintsRemoved ==
    CalcDone =>
        \A k \in { x \in Keys(node.taints) : HasPrefix(x, "nidhogg.uswitch.com") } :
            k \notin NeededKeys =>
                /\ k \notin Keys(calc.first.taints)
                /\ Listed(calc.first.taintsRemoved, k) = 1

\* C22 witness: the legacy taint and the taint of a daemonset that is not
\* configured were removed, the taint of a configured daemonset was kept.
C22_Witness ==
    /\ calc.phase = "once"
    /\ config.Daemonsets = <<DsA>>
    /\ Keys(node.taints) = { "nidhogg.uswitch.com", DocumentedTaint(DsB).key,
                             DocumentedTaint(DsA).key }
    /\ Keys(calc.first.taints) = { DocumentedTaint(DsA).key }
    /\ Len(calc.first.taintsRemoved) = 2


-----------------------------------------------------------------------------
(* Properties of the controller (Spec)                                     *)

\* The values of the first-time-ready annotation of a node: none or one.
MilestoneOf(n) == { kv.value : kv \in { a \in n.annotations : a.key = annotationFirstTimeReady } }

\* A step of the reconcile worker.
ControllerStep == Reconcile \/ CalcNext \/ HandleNodeFinish \/ Return

\* HandleNode has just returned, having calculated the taints.
Calculated == pc = "done" /\ last.calculated

\* C5: once the first-time-ready annotation of the stored node has a value, no
\* step of a reconciliation changes or removes the value.
C5_MilestoneKept ==
    [][(MilestoneOf(node) # {} /\ MilestoneOf(node') # MilestoneOf(node)) => ~ControllerStep]_vars

\* C5 witness: a node annotated in an earlier second had a nidhogg taint again,
\* a reconciliation has just removed the taint, found the node taint-less and
\* written it, and the annotation is the one of before.
C5_Witness ==
    /\ pc = "done"
    /\ last.outcome = "UPDATED"
    /\ last.taintLess
    /\ last.taintsRemoved # << >>
    /\ MilestoneOf(last.before) # {}
    /\ FormatTime(now) \notin MilestoneOf(last.before)
    /\ MilestoneOf(node) = MilestoneOf(last.before)

\* C7: HandleNode writes the first-time-ready annotation into the node copy,
\* with the current time, exactly when the calculated node carries no nidhogg
\* taint and the fetched node has no such annotation; with a nidhogg taint
\* and no annotation, none is set. A successful update stores the node copy.
C7_MilestoneWrittenIffTaintLess ==
    Calculated =>
        LET absentBefore == MilestoneOf(last.before) = {}
            noManagedTaint == ManagedKeys(last.nodeCopy.taints) = {}
            written == last.nodeCopy.annotations # last.before.annotations
        IN  /\ written <=> (noManagedTaint /\ absentBefore)
            /\ written => last.nodeCopy.annotations =
                              last.before.annotations
                                  \cup {KV(annotationFirstTimeReady, FormatTime(now))}
            /\ (~noManagedTaint /\ absentBefore) => MilestoneOf(last.nodeCopy) = {}
            /\ last.outcome = "UPDATED" => node = last.nodeCopy

\* C7 witness: a node that keeps a foreign taint is found taint-less after the
\* clock has moved, and the annotation is written and stored.
C7_Witness ==
    /\ Calculated
    /\ last.outcome = "UPDATED"
    /\ now > 0
    /\ last.nodeCopy.taints # << >>
    /\ MilestoneOf(last.before) = {}
    /\ MilestoneOf(node) = {FormatTime(now)}

\* Scenario A: a node without taints, one configured daemonset, no pod of it
\* found on the node.
ScenarioA ==
    /\ Calculated
    /\ last.before.taints = << >>
    /\ Len(config.Daemonsets) = 1
    /\ last.found = << << >> >>

ScenarioATaint ==
    "nidhogg.uswitch.com/" \o config.Daemonsets[1].namespace \o "." \o config.Daemonsets[1].name

ScenarioATaints ==
    /\ last.nodeCopy.taints = <<Taint(ScenarioATaint, "", "NoSchedule")>>
    /\ last.taintsAdded = <<ScenarioATaint>>
    /\ last.taintsRemoved = << >>

\* C8 as stated: in scenario A the node gets the one taint of the daemonset,
\* added lists it, removed is empty, and the first-time-ready annotation is
\* set to the current time.
C8_ScenarioA_AsStated ==
    ScenarioA =>
        /\ ScenarioATaints
        /\ MilestoneOf(last.nodeCopy) = {FormatTime(now)}

\* C8 amended: in scenario A the node gets the one taint of the daemonset,
\* added lists it, removed is empty, the node is not taint-less and its
\* annotations are left as they were (no first-time-ready value is set).
C8_ScenarioA ==
    ScenarioA =>
        /\ ScenarioATaints
        /\ ~last.taintLess
        /\ last.nodeCopy.annotations = last.before.annotations
        /\ MilestoneOf(last.before) = {} => last.firstTimeReady = ""

\* C8 witness: scenario A on a node never annotated, the taint written.
C8_Witness ==
    /\ ScenarioA
    /\ last.outcome = "UPDATED"
    /\ node.taints = <<Taint(ScenarioATaint, "", "NoSchedule")>>
    /\ MilestoneOf(node) = {}

\* C10: a reconciliation of a node whose labels do not satisfy the selector
\* ends without error, having listed no pods, attempted no write and emitted
\* nothing, with the stored node as fetched; and no reconciliation goes past
\* the selector check with a node that does not satisfy the selector.
C10_OutOfScopeUntouched ==
    /\ (pc = "done" /\ last.outcome = "OUT_OF_SCOPE") =>
           /\ ~last.error
           /\ last.lists = 0
           /\ last.writes = 0
           /\ last.emitted = NoEmitted
           /\ node = last.before
    /\ (pc \in {"calc", "done"} /\ last.outcome \notin {"OUT_OF_SCOPE", "NOT_FOUND"}
            /\ last.failedAt # "get") =>
           Matches(config.Selector, last.before.labels)

\* C10 witness: a tainted node outside the selector has been reconciled.
C10_Witness ==
    /\ pc = "done"
    /\ last.outcome = "OUT_OF_SCOPE"
    /\ ~Matches(config.Selector, node.labels)
    /\ node.taints # << >>

\* The reconciliation that has just returned got the node and every listing.
Served == pc = "done" /\ last.failedAt \notin {"get", "list"}

\* C11: a reconciliation that follows a reconciliation that wrote the node,
\* with no change of pods or node by another actor since that one began, ends
\* in NO_CHANGE without a write or a notification; and so does every
\* reconciliation that finds no taint to add or to remove and no first-time-
\* ready annotation to set.
C11_ConvergedIsNoChange ==
    /\ (Served /\ last.afterUpdate /\ last.quiet) =>
           /\ last.outcome = "NO_CHANGE"
           /\ last.writes = 0
           /\ last.emitted = NoEmitted
           /\ node = last.before
    /\ (Calculated /\ last.taintsAdded = << >> /\ last.taintsRemoved = << >>
            /\ (last.taintLess => MilestoneOf(last.before) # {})) =>
           /\ last.outcome = "NO_CHANGE"
           /\ last.writes = 0
           /\ last.emitted = NoEmitted

\* C11 witness: the node was tainted by the reconciliation before, a later
\* second has come, and the reconciliation of the unchanged node has ended.
C11_Witness ==
    /\ Served
    /\ last.afterUpdate
    /\ last.quiet
    /\ last.outcome = "NO_CHANGE"
    /\ ManagedKeys(node.taints) # {}
    /\ now > 0

\* The change notifications a reconciliation emitted: none.
NoChangeNotified == last.emitted.counts = << >> /\ last.emitted.events = << >>

C13_NotifiedAfterWrite ==
    pc = "done" =>
        LET a == Len(last.taintsAdded)
            r == Len(last.taintsRemoved)
            counts == last.emitted.counts
        IN  /\ last.outcome = "UPDATED" =>
                   /\ last.writes = 1
                   /\ node = last.nodeCopy
                   /\ Len(counts) = a + r
                   /\ \A x \in 1..a : counts[x] = [operation |-> "added",
                                                    taint |-> last.taintsAdded[x]]
                   /\ \A x \in 1..r : counts[a + x] = [operation |-> "removed",
                                                        taint |-> last.taintsRemoved[x]]
                   /\ Len(last.emitted.events) = 1
                   /\ last.emitted.events[1].reason = "TaintsChanged"
                   /\ last.emitted.events[1].taintsAdded = last.taintsAdded
                   /\ last.emitted.events[1].taintsRemoved = last.taintsRemoved
            /\ last.failedAt = "update" =>
                   /\ last.outcome = "FAILED"
                   /\ last.error
                   /\ last.writes = 1
                   /\ NoChangeNotified
            /\ last.outcome # "UPDATED" => NoChangeNotified

\* C13 witness: a written node with a taint added and a taint removed.
C13_Witness ==
    /\ pc = "done"
    /\ last.outcome = "UPDATED"
    /\ last.taintsAdded # << >>
    /\ last.taintsRemoved # << >>
    /\ Len(last.emitted.counts) = 2

\* C14: the last step of a HandleNode whose node was written by another actor
\* since the fetch leaves the stored node as that actor left it; its write, if
\* it attempts one, is the only one and fails, the reconciliation returns the
\* error and emits no change notification; and the worker queues the node
\* again for a reconciliation that fetches it anew.
C14_ConflictLosesNoUpdate ==
    [][/\ (conflict /\ HandleNodeFinish) =>
              /\ node' = node
              /\ last'.outcome \in {"FAILED", "NO_CHANGE"}
              /\ last'.writes <= 1
              /\ last'.writes = 1 => /\ last'.outcome = "FAILED"
                                     /\ last'.failedAt = "update"
                                     /\ last'.error
                                     /\ last'.emitted.counts = << >>
                                     /\ last'.emitted.events = << >>
       /\ (last.failedAt = "update" /\ Return) => NodeName \in queue'
       /\ (pc' = "calc" /\ pc # "calc" /\ Reconcile) => (instance' = node /\ ~conflict')]_vars

\* C14 witness: the labels were changed during the calculation, the write of
\* the new taints failed, and the stored node has the new labels and the
\* taints of before.
C14_Witness ==
    /\ pc = "done"
    /\ last.failedAt = "update"
    /\ node.exists
    /\ node.labels # last.before.labels
    /\ node.taints = last.before.taints
    /\ last.nodeCopy.taints # last.before.taints

\* C15: a reconciliation that found no node returned no error, listed no pods,
\* attempted no write and emitted nothing, and the worker does not queue the
\* node again for it; a reconciliation whose Get failed otherwise returned an
\* error, and the worker queues the node again.
C15_NotFoundIsSuccess ==
    [][/\ (pc' = "done" /\ last'.outcome = "NOT_FOUND") =>
              /\ ~last'.error
              /\ last'.lists = 0
              /\ last'.writes = 0
              /\ last'.emitted = NoEmitted
              /\ ~node'.exists
       /\ (pc' = "done" /\ last'.failedAt = "get") =>
              /\ last'.error
              /\ last'.lists = 0
              /\ last'.writes = 0
       /\ (Reconcile /\ ~node.exists) =>
              (last'.outcome = "NOT_FOUND" \/ last'.failedAt = "get")
       /\ (Return /\ last.outcome = "NOT_FOUND") => queue' = queue
       /\ (Return /\ last.failedAt = "get") => NodeName \in queue']_vars

\* C15 witness: the node was deleted, its reconciliation found nothing and
\* nothing is queued.
C15_Witness ==
    /\ pc = "done"
    /\ last.outcome = "NOT_FOUND"
    /\ ~node.exists
    /\ queue = {}

-----------------------------------------------------------------------------
(* Properties of the configuration and of the selector (SpecConfig)        *)

\* What a selector expression of the model asks of the labels of a node.
Satisfies(rawSelector, labels) ==
    CASE rawSelector = "" -> TRUE
      [] rawSelector = "role=node" -> KV("role", "node") \in labels
      [] rawSelector = "role,role!=master" ->
             \E kv \in labels : kv.key = "role" /\ kv.value # "master"
      [] OTHER -> FALSE

SelectorChecked == calc.phase \in {"in scope", "out of scope"}

\* C16: a node checked against a configuration without nodeSelector, or with
\* empty expressions only, is in scope whatever its labels; a node checked
\* against any configuration is in scope exactly when its labels satisfy
\* every expression of the nodeSelector.
C16_SelectorMatchesAllRequirements ==
    SelectorChecked =>
        /\ (\A x \in 1..Len(config.NodeSelector) : config.NodeSelector[x] = "")
               => calc.phase = "in scope"
        /\ calc.phase = "in scope" <=>
               \A x \in 1..Len(config.NodeSelector) :
                   Satisfies(config.NodeSelector[x], node.labels)

\* C16 witness: a node without labels is in scope of a configuration without
\* nodeSelector.
C16_Witness ==
    /\ calc.phase = "in scope"
    /\ config.NodeSelector = << >>
    /\ node.labels = {}

\* C17: the loading of a configuration never panics, and the loading of a
\* configuration with an expression that does not parse returns an error.
C17_MalformedIsAnError ==
    calc.phase # "config" =>
        /\ calc.phase # "panic"
        /\ (\E x \in 1..Len(config.NodeSelector) : labelsParse(config.NodeSelector[x]).err)
               => calc.phase = "error"

-----------------------------------------------------------------------------
(* Convergence (Spec)                                                      *)

\* A pod of the daemonset is on the node and ready: it reports at least one
\* container status and every status it reports is ready.
ReadyPodOnNode(ds) ==
    \E p \in PodIds :
        /\ pods[p].exists
        /\ pods[p].namespace = ds.namespace
        /\ \E o \in 1..Len(pods[p].owners) : pods[p].owners[o].name = ds.name
        /\ pods[p].nodeName = NodeName
        /\ Len(pods[p].statuses) >= 1
        /\ \A j \in 1..Len(pods[p].statuses) : pods[p].statuses[j] = TRUE

\* The taint keys of the configured daemonsets without a ready pod on the node.
WantedKeys ==
    { "nidhogg.uswitch.com/" \o ds.namespace \o "." \o ds.name :
          ds \in { d \in Configured : ~ReadyPodOnNode(d) } }

\* No reconciliation runs, none is queued: unless a pod or the node is changed
\* by another actor, no step is taken from here.
AtRest == pc = "idle" /\ queue = {}

\* C20: whenever the controller is at rest with the node in scope, the
\* nidhogg taints of the node are the taints of the configured daemonsets
\* without a ready pod on the node, each once. (The controller stays at rest
\* for as long as pods and node are left alone, so a state at rest where this
\* fails is the state of a run that never converges.)
C20_ConvergedAtRest ==
    (AtRest /\ node.exists /\ InScope(node)) =>
        /\ ManagedKeys(node.taints) = WantedKeys
        /\ \A k \in WantedKeys : CountKey(node.taints, k) = 1

-----------------------------------------------------------------------------
(* Pod listings (Spec)                                                     *)

\* The namespaces of the configured daemonsets.
ConfiguredNamespaces == { ds.namespace : ds \in Configured }

\* C23: a reconciliation that calculated the taints listed the pods once per
\* namespace of the configured daemonsets, and found the same pod for two
\* entries of the same daemonset.
C23_OneListingPerNamespace ==
    Calculated =>
        /\ last.lists = Cardinality(ConfiguredNamespaces)
        /\ \A a, b \in 1..Len(last.found) :
               config.Daemonsets[a] = config.Daemonsets[b] => last.found[a] = last.found[b]

\* The reconciliation that has just returned wrote the first-time-ready
\* annotation of the node.
MilestoneWritten ==
    /\ pc = "done"
    /\ last.outcome = "UPDATED"
    /\ MilestoneOf(last.before) = {}
    /\ MilestoneOf(node) # {}

\* C24: a reconciliation that wrote the first-time-ready annotation had an
\* instant, between its begin and its write, at which every configured
\* daemonset had a ready pod on the node (ready as podReady decides).
C24_ReadyAtOneInstant == MilestoneWritten => last.allReady

-----------------------------------------------------------------------------
(* Properties of the pod events (SpecEnqueue)                              *)

\* C25: after the creation, update or deletion event of a pod that the lookup
\* returned as the pod of the configured daemonset on the node, the node is
\* queued.
C25_LocatedPodsEnqueue ==
    (calc.phase \in {"created", "updated", "deleted"} /\ work.found[1] # << >>) =>
        NodeName \in queue

-----------------------------------------------------------------------------
(* Nodes that leave the scope (Spec)                                       *)

\* C26: no step changes the taints or the annotations of a stored node whose
\* labels do not satisfy the selector, whatever reconciliations run, so the
\* node keeps its nidhogg taints; and a step that changes the labels of the
\* node queues nothing and leaves the taints.
C26_OutOfScopeKeepsTaints ==
    [][/\ (node.exists /\ node'.exists /\ ~Matches(config.Selector, node.labels)) =>
              /\ node'.taints = node.taints
              /\ node'.annotations = node.annotations
       /\ (node.exists /\ node'.exists /\ node'.labels # node.labels) =>
              /\ queue' = queue
              /\ node'.taints = node.taints]_vars

\* C26 witness: the node was tainted for kiam by the controller and lost its
\* label; the kiam pod is ready, the node was reconciled, and the taint is
\* still on it.
C26_Witness ==
    /\ pc = "done"
    /\ last.outcome = "OUT_OF_SCOPE"
    /\ config.Daemonsets = <<DsA>>
    /\ AllReady(pods)
    /\ "nidhogg.uswitch.com/kube-system.kiam" \in Keys(node.taints)


====
